---- MODULE Spec2Model ----
(***************************************************************************)
(* Pivoted LU factorization, row swapping, pivot selection and the         *)
(* triangular solvers of 1a/LU with pivot and 1a/LU Decomposition.         *)
(*                                                                         *)
(* Matrix entries are exact rationals <<num, den>> (den > 0, lowest        *)
(* terms): the properties stated below are properties of the algorithm in  *)
(* exact arithmetic.  Matrices and vectors are functions over 0..n-1, as   *)
(* the Python lists they model.                                            *)
(***************************************************************************)
EXTENDS Integers, FiniteSets, Sequences, TLC

(* ------------------------------ bounds --------------------------------- *)
MaxN == 3
MaxVal == 1

(* ------------------------- exact arithmetic ---------------------------- *)
IAbs(i) == IF i < 0 THEN -i ELSE i

RECURSIVE GCD(_, _)
GCD(a, b) == IF b = 0 THEN a ELSE GCD(b, a % b)

Norm(num, den) ==
    LET s == IF den < 0 THEN -1 ELSE 1
        g == GCD(IAbs(num), IAbs(den))
    IN  <<(s * num) \div g, (s * den) \div g>>

Q(i) == <<i, 1>>
QAdd(a, b) == Norm(a[1] * b[2] + b[1] * a[2], a[2] * b[2])
QSub(a, b) == Norm(a[1] * b[2] - b[1] * a[2], a[2] * b[2])
QMul(a, b) == Norm(a[1] * b[1], a[2] * b[2])
QDiv(a, b) == Norm(a[1] * b[2], a[2] * b[1])
QAbs(a) == <<IAbs(a[1]), a[2]>>
QGt(a, b) == a[1] * b[2] > b[1] * a[2]
QIsZero(a) == a[1] = 0

(* ------------------------- matrices, vectors --------------------------- *)
Rows(M) == Cardinality(DOMAIN M)
Cols(M) == Cardinality(DOMAIN M[0])
Idx(n) == 0 .. (n - 1)
Zeros(n, m) == [i \in Idx(n) |-> [j \in Idx(m) |-> Q(0)]]
Identity(n) == [i \in Idx(n) |-> [j \in Idx(n) |-> IF i = j THEN Q(1) ELSE Q(0)]]
Vals == {Q(v) : v \in 0 .. MaxVal}
Bits == {Q(0), Q(1)}
Matrices(n, m) == [Idx(n) -> [Idx(m) -> Vals]]
Vectors(n) == [Idx(n) -> Vals]
BitMatrices(n, m) == [Idx(n) -> [Idx(m) -> Bits]]
BitVectors(n) == [Idx(n) -> Bits]

(* 1a/Matrix Multiplication/mult.py: C[i][j] += A[i][k] * B[k][j] *)
RECURSIVE Dot(_, _, _, _, _)
Dot(A, B, i, j, t) ==
    IF t = Cols(A) THEN Q(0)
    ELSE QAdd(QMul(A[i][t], B[t][j]), Dot(A, B, i, j, t + 1))

mult(A, B) == [i \in Idx(Rows(A)) |-> [j \in Idx(Cols(B)) |-> Dot(A, B, i, j, 0)]]

(* ------------------------- findLargestInCol ---------------------------- *)
(* the loop of lines 10-14: strict > keeps the first maximum seen *)
RECURSIVE ScanColNoAbs(_, _, _, _, _)
ScanColNoAbs(A, k, i, index, curMax) ==
    IF i = Rows(A) THEN index
    ELSE IF QGt(A[i][k], curMax)
         THEN ScanColNoAbs(A, k, i + 1, i, A[i][k])
         ELSE ScanColNoAbs(A, k, i + 1, index, curMax)

RECURSIVE ScanCol(_, _, _, _, _)
ScanCol(A, k, i, index, curMax) ==
    IF i = Rows(A) THEN index
    ELSE LET val == QAbs(A[i][k])
         IN  IF QGt(val, curMax)
             THEN ScanCol(A, k, i + 1, i, val)
             ELSE ScanCol(A, k, i + 1, index, curMax)

findLargestInColNoAbs(A, k) == ScanColNoAbs(A, k, 0, 0, A[0][k])

findLargestInCol(A, k) == ScanCol(A, k, 0, 0, QAbs(A[0][k]))

(* ------------------------------ swapRows ------------------------------- *)
swapRows(A, u, v) ==
    [i \in Idx(Rows(A)) |->
        LET k == IF i = u THEN v ELSE IF i = v THEN u ELSE i
        IN  [j \in Idx(Cols(A)) |-> A[k][j]]]

(* swapRowsV2: for i, val in enumerate(A[u]): A[u][i] = A[v][i]; A[v][i] = val *)
RECURSIVE SwapLoop(_, _, _, _)
SwapLoop(A, u, v, i) ==
    IF i = Cols(A) THEN A
    ELSE LET val == A[u][i]
             A1 == [A EXCEPT ![u][i] = A[v][i]]
             A2 == [A1 EXCEPT ![v][i] = val]
         IN  SwapLoop(A2, u, v, i + 1)

RECURSIVE SwapLoopLateRead(_, _, _, _)
SwapLoopLateRead(A, u, v, i) ==
    IF i = Cols(A) THEN A
    ELSE LET A1 == [A EXCEPT ![u][i] = A[v][i]]
             A2 == [A1 EXCEPT ![v][i] = A1[u][i]]
         IN  SwapLoopLateRead(A2, u, v, i + 1)

swapRowsV2LateRead(A, u, v) == SwapLoopLateRead(A, u, v, 0)

swapRowsV2(A, u, v) == SwapLoop(A, u, v, 0)

(* --------------------------- program state ----------------------------- *)
VARIABLES
    A,      \* the caller's matrix handed to PALUdecomp and PALUdecompV2
    A0,     \* its entries before the calls
    v1,     \* frame of PALUdecomp(A):   st, k, maxk, B, L, U, P (matrix)
    v2,     \* frame of PALUdecompV2(A): st, k, maxk, B, L, U, P (index list)
    sw,     \* swapRows / swapRowsV2 called on the same matrix
    tri,    \* frame of Lsolve / Usolve
    sv      \* frame of Asolve

vars == <<A, A0, v1, v2, sw, tri, sv>>

Idle == [st |-> "idle"]
Ready == [st |-> "ready"]
Terminal == {"returned", "singular", "dimension"}

(* ------------------- elimination step, lines 38-50 --------------------- *)
(* for j in range(k, n): U[k][j] = B[k][j] *)
UpperRow(U, B, k) ==
    [U EXCEPT ![k] = [j \in Idx(Rows(B)) |-> IF j >= k THEN B[k][j] ELSE U[k][j]]]

(* for i in range(k, n): L[i][k] = B[i][k] / U[k][k] *)
LowerColBelowDiagonal(L, B, U, k) ==
    [i \in Idx(Rows(B)) |->
        IF i > k THEN [L[i] EXCEPT ![k] = QDiv(B[i][k], U[k][k])] ELSE L[i]]

LowerCol(L, B, U, k) ==
    [i \in Idx(Rows(B)) |->
        IF i >= k THEN [L[i] EXCEPT ![k] = QDiv(B[i][k], U[k][k])] ELSE L[i]]

(* for i, j in range(k, n): B[i][j] -= L[i][k] * U[k][j] *)
SchurUpdate(B, L, U, k) ==
    [i \in Idx(Rows(B)) |-> [j \in Idx(Rows(B)) |->
        IF i >= k /\ j >= k THEN QSub(B[i][j], QMul(L[i][k], U[k][j])) ELSE B[i][j]]]

(* B = [[0] * n ...]; B[i][j] = A[i][j]: B is a new object, so a later     *)
(* write to B reaches the caller's matrix only if B were A itself.         *)
AliasingCopy == TRUE

WorkingCopyIsInput == FALSE

CallerMatrixAfter(Ain, Bnew) == IF WorkingCopyIsInput THEN Bnew ELSE Ain

(* temp = P[maxk]; P[maxk] = P[k]; P[k] = temp *)
swapEntriesNoTemp(P, maxk, k) == [P EXCEPT ![maxk] = P[k], ![k] = P[k]]

swapEntries(P, maxk, k) == [P EXCEPT ![maxk] = P[k], ![k] = P[maxk]]

(* ----------------------------- PALUdecomp ------------------------------ *)
PALUdecompEnter ==
    /\ v1.st = "ready"
    /\ LET n == Rows(A) IN
        IF n # Cols(A)
        THEN v1' = [st |-> "dimension"]
        ELSE v1' = [st |-> "running", k |-> 0, maxk |-> -1,
                    P |-> Identity(n), L |-> Zeros(n, n), U |-> Zeros(n, n),
                    B |-> [i \in Idx(n) |-> [j \in Idx(n) |-> A[i][j]]]]
    /\ UNCHANGED <<A, A0, v2, sw, tri, sv>>

PALUdecompStep ==
    /\ v1.st = "running"
    /\ LET n == Rows(v1.B)
           k == v1.k
           maxk == findLargestInCol(v1.B, k)
           B1 == IF maxk # k THEN swapRows(v1.B, maxk, k) ELSE v1.B
           L1 == IF maxk # k THEN swapRows(v1.L, maxk, k) ELSE v1.L
           P1 == IF maxk # k THEN swapRows(v1.P, maxk, k) ELSE v1.P
           U1 == UpperRow(v1.U, B1, k)
       IN  IF QIsZero(U1[k][k])
           THEN /\ v1' = [v1 EXCEPT !.st = "singular", !.maxk = maxk,
                                    !.B = B1, !.L = L1, !.P = P1, !.U = U1]
                /\ A' = CallerMatrixAfter(A, B1)
           ELSE LET L2 == LowerCol(L1, B1, U1, k)
                    B2 == SchurUpdate(B1, L2, U1, k)
                IN  /\ v1' = [st |-> IF k + 1 = n THEN "returned" ELSE "running",
                              k |-> k + 1, maxk |-> maxk,
                              B |-> B2, L |-> L2, P |-> P1, U |-> U1]
                    /\ A' = CallerMatrixAfter(A, B2)
    /\ UNCHANGED <<A0, v2, sw, tri, sv>>

(* ---------------------------- PALUdecompV2 ----------------------------- *)
PALUdecompV2Enter ==
    /\ v1.st \in Terminal
    /\ v2.st = "ready"
    /\ LET n == Rows(A) IN
        IF n # Cols(A)
        THEN v2' = [st |-> "dimension"]
        ELSE v2' = [st |-> "running", k |-> 0, maxk |-> -1,
                    P |-> [i \in Idx(n) |-> i], L |-> Zeros(n, n), U |-> Zeros(n, n),
                    B |-> [i \in Idx(n) |-> [j \in Idx(n) |-> A[i][j]]]]
    /\ UNCHANGED <<A, A0, v1, sw, tri, sv>>

PALUdecompV2Step ==
    /\ v2.st = "running"
    /\ LET n == Rows(v2.B)
           k == v2.k
           maxk == findLargestInCol(v2.B, k)
           B1 == IF maxk # k THEN swapRowsV2(v2.B, maxk, k) ELSE v2.B
           L1 == IF maxk # k THEN swapRowsV2(v2.L, maxk, k) ELSE v2.L
           P1 == IF maxk # k THEN swapEntries(v2.P, maxk, k) ELSE v2.P
           U1 == UpperRow(v2.U, B1, k)
       IN  IF QIsZero(U1[k][k])
           THEN /\ v2' = [v2 EXCEPT !.st = "singular", !.maxk = maxk,
                                    !.B = B1, !.L = L1, !.P = P1, !.U = U1]
                /\ A' = CallerMatrixAfter(A, B1)
           ELSE LET L2 == LowerCol(L1, B1, U1, k)
                    B2 == SchurUpdate(B1, L2, U1, k)
                IN  /\ v2' = [st |-> IF k + 1 = n THEN "returned" ELSE "running",
                              k |-> k + 1, maxk |-> maxk,
                              B |-> B2, L |-> L2, P |-> P1, U |-> U1]
                    /\ A' = CallerMatrixAfter(A, B2)
    /\ UNCHANGED <<A0, v1, sw, tri, sv>>

(* inputs of the factorizations: the 0/1 matrices of dimension up to MaxN   *)
(* with zeros more than two places off the diagonal (all 0/1 matrices up   *)
(* to 3x3), their last row multiplied by a factor up to MaxVal; the 0/1    *)
(* matrices that are not square; and a few 2x2 matrices with larger and    *)
(* negative entries.                                                       *)
InBand(i, j) == i - j <= 2 /\ j - i <= 2

BandCells(n) == {c \in Idx(n) \X Idx(n) : InBand(c[1], c[2])}

Banded(n, T, f) ==
    [i \in Idx(n) |-> [j \in Idx(n) |->
        IF InBand(i, j)
        THEN Q((IF i = n - 1 THEN f ELSE 1) * T[<<i, j>>])
        ELSE Q(0)]]

Examples ==
    { <<<<1, 2>>, <<3, 4>>>>, <<<<2, 0>>, <<0, 2>>>>, <<<<0, 1>>, <<0, 1>>>>,
      <<<<1, -2>>, <<-3, 1>>>> }

FromRows(R) == [i \in Idx(Len(R)) |-> [j \in Idx(Len(R[1])) |-> Q(R[i + 1][j + 1])]]

InitA ==
    \/ \E n \in 1 .. MaxN, f \in 1 .. MaxVal :
          \E T \in [BandCells(n) -> {0, 1}] : A = Banded(n, T, f)
    \/ \E r \in 1 .. MaxN, c \in 1 .. MaxN :
          /\ r # c
          /\ A \in BitMatrices(r, c)
    \/ \E R \in Examples : A = FromRows(R)

InitLU ==
    /\ InitA
    /\ A0 = A
    /\ v1 = Ready
    /\ v2 = Ready
    /\ sw = Idle
    /\ tri = Idle
    /\ sv = Idle

NextLU ==
    \/ PALUdecompEnter
    \/ PALUdecompStep
    \/ PALUdecompV2Enter
    \/ PALUdecompV2Step

SpecLU == InitLU /\ [][NextLU]_vars

(* ------------------------ swapRows / swapRowsV2 ------------------------ *)
(* sw.M is handed to swapRows, whose result is sw.R; sw.M2, an equal but   *)
(* separate matrix, is handed to swapRowsV2, which writes into it.         *)
MaxSwapCols == 2

SwapRowsCall ==
    /\ sw.st = "ready"
    /\ sw' = [sw EXCEPT !.st = "copied", !.R = swapRows(sw.M, sw.u, sw.v)]
    /\ UNCHANGED <<A, A0, v1, v2, tri, sv>>

SwapRowsV2Call ==
    /\ sw.st = "copied"
    /\ sw' = [sw EXCEPT !.st = "done", !.M2 = swapRowsV2(sw.M2, sw.u, sw.v)]
    /\ UNCHANGED <<A, A0, v1, v2, tri, sv>>

InitSwap ==
    /\ \E r \in 1 .. MaxN, c \in 1 .. MaxSwapCols :
         \E M \in BitMatrices(r, c), u \in Idx(r), v \in Idx(r) :
            sw = [st |-> "ready", M |-> M, M0 |-> M, M2 |-> M, u |-> u, v |-> v,
                  R |-> <<>>]
    /\ A = <<>>
    /\ A0 = <<>>
    /\ v1 = Idle
    /\ v2 = Idle
    /\ tri = Idle
    /\ sv = Idle

NextSwap == SwapRowsCall \/ SwapRowsV2Call

SpecSwap == InitSwap /\ [][NextSwap]_vars

(* --------------------------- Lsolve / Usolve --------------------------- *)
(* if LRows != len(L[0]) or bRows != LRows: raise *)
SizesMatchLengthOnly(M, b) == Cardinality(DOMAIN b) = Rows(M)

SizesMatch(M, b) == ~(Rows(M) # Cols(M) \/ Cardinality(DOMAIN b) # Rows(M))

(* Lsolve: for j in range(k): y[k] -= L[k][j] * y[j] *)
RECURSIVE LsolveSub(_, _, _, _)
LsolveSub(L, y, k, j) ==
    IF j = k THEN y
    ELSE LsolveSub(L, [y EXCEPT ![k] = QSub(y[k], QMul(L[k][j], y[j]))], k, j + 1)

LsolveRowNoDivide(L, y, k) == LsolveSub(L, y, k, 0)

(* ... then y[k] /= L[k][k] *)
LsolveRow(L, y, k) ==
    LET y1 == LsolveSub(L, y, k, 0)
    IN  [y1 EXCEPT ![k] = QDiv(y1[k], L[k][k])]

(* Usolve: for j in range(k+1, URows): x[k] -= U[k][j] * x[j] *)
RECURSIVE UsolveSub(_, _, _, _)
UsolveSub(U, x, k, j) ==
    IF j = Rows(U) THEN x
    ELSE UsolveSub(U, [x EXCEPT ![k] = QSub(x[k], QMul(U[k][j], x[j]))], k, j + 1)

(* ... then x[k] /= U[k][k] *)
UsolveRow(U, x, k) ==
    LET x1 == UsolveSub(U, x, k, k + 1)
    IN  [x1 EXCEPT ![k] = QDiv(x1[k], U[k][k])]

(* y = [0] * bRows; y[i] = b[i]: the result is a new list *)
ResultIsInput == FALSE

CallerVectorAfter(bin, ynew) == IF ResultIsInput THEN ynew ELSE bin

(* entry of either solver: the size check, then the copy of the vector *)
TriEnter ==
    /\ tri.st = "ready"
    /\ IF ~SizesMatch(tri.M, tri.b)
       THEN tri' = [tri EXCEPT !.st = "dimension"]
       ELSE tri' = [tri EXCEPT !.st = "running",
                               !.y = [i \in Idx(Rows(tri.M)) |-> tri.b[i]],
                               !.k = IF tri.op = "Lsolve" THEN 0 ELSE Rows(tri.M) - 1]
    /\ UNCHANGED <<A, A0, v1, v2, sw, sv>>

(* one iteration of for k in range(LRows) *)
LsolveStep ==
    /\ tri.st = "running"
    /\ tri.op = "Lsolve"
    /\ LET k == tri.k IN
        IF QIsZero(tri.M[k][k])
        THEN tri' = [tri EXCEPT !.st = "singular"]
        ELSE LET y1 == LsolveRow(tri.M, tri.y, k)
             IN  tri' = [tri EXCEPT !.y = y1, !.k = k + 1,
                             !.b = CallerVectorAfter(tri.b, y1),
                             !.st = IF k + 1 = Rows(tri.M) THEN "returned" ELSE "running",
                             !.ret = IF k + 1 = Rows(tri.M) THEN y1 ELSE <<>>]
    /\ UNCHANGED <<A, A0, v1, v2, sw, sv>>

(* one iteration of for k in range(URows-1, -1, -1) *)
UsolveStep ==
    /\ tri.st = "running"
    /\ tri.op = "Usolve"
    /\ LET k == tri.k IN
        IF QIsZero(tri.M[k][k])
        THEN tri' = [tri EXCEPT !.st = "singular"]
        ELSE LET x1 == UsolveRow(tri.M, tri.y, k)
             IN  tri' = [tri EXCEPT !.y = x1, !.k = k - 1,
                             !.b = CallerVectorAfter(tri.b, x1),
                             !.st = IF k = 0 THEN "returned" ELSE "running",
                             !.ret = IF k = 0 THEN x1 ELSE <<>>]
    /\ UNCHANGED <<A, A0, v1, v2, sw, sv>>

(* inputs: r x c matrices that are zero above (Lsolve) or below (Usolve)   *)
(* the diagonal, every other entry 0 or a common factor f, with 0/1        *)
(* vectors of every length up to MaxN                                      *)
TriMatrices(op, r, c) ==
    {[i \in Idx(r) |-> [j \in Idx(c) |->
         IF (op = "Lsolve" /\ j > i) \/ (op = "Usolve" /\ j < i)
         THEN Q(0) ELSE Q(f * T[i][j][1])]]
       : T \in BitMatrices(r, c), f \in {1, MaxVal + 1}}

InitTriFrame ==
    \E op \in {"Lsolve", "Usolve"}, r \in 1 .. MaxN, c \in 1 .. MaxN, len \in 1 .. MaxN :
       \E M \in TriMatrices(op, r, c), b \in BitVectors(len) :
          tri = [op |-> op, st |-> "ready", M |-> M, M0 |-> M, b |-> b, b0 |-> b,
                 k |-> 0, y |-> <<>>, ret |-> <<>>]

InitTri ==
    /\ InitTriFrame
    /\ A = <<>>
    /\ A0 = <<>>
    /\ v1 = Idle
    /\ v2 = Idle
    /\ sw = Idle
    /\ sv = Idle

NextTri == TriEnter \/ LsolveStep \/ UsolveStep

SpecTri == InitTri /\ [][NextTri]_vars

(* -------------------------------- Asolve ------------------------------- *)
(* Lsolve and Usolve as whole calls, built from the same loop bodies *)
RECURSIVE LsolveLoop(_, _, _)
LsolveLoop(L, y, k) ==
    IF k = Rows(L) THEN [st |-> "returned", ret |-> y]
    ELSE IF QIsZero(L[k][k]) THEN [st |-> "singular", ret |-> <<>>]
    ELSE LsolveLoop(L, LsolveRow(L, y, k), k + 1)

Lsolve(L, b) ==
    IF ~SizesMatch(L, b) THEN [st |-> "dimension", ret |-> <<>>]
    ELSE LsolveLoop(L, [i \in Idx(Rows(L)) |-> b[i]], 0)

RECURSIVE UsolveLoop(_, _, _)
UsolveLoop(U, x, k) ==
    IF k = -1 THEN [st |-> "returned", ret |-> x]
    ELSE IF QIsZero(U[k][k]) THEN [st |-> "singular", ret |-> <<>>]
    ELSE UsolveLoop(U, UsolveRow(U, x, k), k - 1)

Usolve(U, y) ==
    IF ~SizesMatch(U, y) THEN [st |-> "dimension", ret |-> <<>>]
    ELSE UsolveLoop(U, [i \in Idx(Rows(U)) |-> y[i]], Rows(U) - 1)

(* LUdecomp, the factorization without pivoting: the elimination step of   *)
(* the pivoted one with no pivot search and no row swap.  Entry: the       *)
(* squareness check, L and U zero, B a copy of A.                          *)
LUdecompEnter ==
    /\ sv.st = "ready"
    /\ LET n == Rows(sv.A) IN
        IF n # Cols(sv.A)
        THEN sv' = [sv EXCEPT !.st = "dimension"]
        ELSE sv' = [sv EXCEPT !.st = "factoring", !.k = 0,
                              !.L = Zeros(n, n), !.U = Zeros(n, n),
                              !.B = [i \in Idx(n) |-> [j \in Idx(n) |-> sv.A[i][j]]]]
    /\ UNCHANGED <<A, A0, v1, v2, sw, tri>>

(* one elimination step of LUdecomp; after the last, L, U = LUdecomp(A) *)
LUdecompStep ==
    /\ sv.st = "factoring"
    /\ LET k == sv.k
           U1 == UpperRow(sv.U, sv.B, k)
       IN  IF QIsZero(U1[k][k])
           THEN sv' = [sv EXCEPT !.st = "singular", !.U = U1]
           ELSE LET L1 == LowerCol(sv.L, sv.B, U1, k)
                IN  sv' = [sv EXCEPT !.U = U1, !.L = L1, !.k = k + 1,
                                     !.B = SchurUpdate(sv.B, L1, U1, k),
                                     !.st = IF k + 1 = Rows(sv.A) THEN "factored"
                                            ELSE "factoring"]
    /\ UNCHANGED <<A, A0, v1, v2, sw, tri>>

(* y = Lsolve(L, b) *)
AsolveForward ==
    /\ sv.st = "factored"
    /\ LET r == Lsolve(sv.L, sv.b) IN
        IF r.st # "returned"
        THEN sv' = [sv EXCEPT !.st = r.st]
        ELSE sv' = [sv EXCEPT !.st = "forward", !.y = r.ret]
    /\ UNCHANGED <<A, A0, v1, v2, sw, tri>>

(* x = Usolve(U, y); return x *)
AsolveBack ==
    /\ sv.st = "forward"
    /\ LET r == Usolve(sv.U, sv.y) IN
        IF r.st # "returned"
        THEN sv' = [sv EXCEPT !.st = r.st]
        ELSE sv' = [sv EXCEPT !.st = "returned", !.x = r.ret]
    /\ UNCHANGED <<A, A0, v1, v2, sw, tri>>

InitSolve ==
    /\ \E n \in 1 .. MaxN :
         \E M \in Matrices(n, n), b \in Vectors(n) :
            sv = [st |-> "ready", A |-> M, b |-> b, k |-> 0, B |-> <<>>,
                  L |-> <<>>, U |-> <<>>, y |-> <<>>, x |-> <<>>]
    /\ A = <<>>
    /\ A0 = <<>>
    /\ v1 = Idle
    /\ v2 = Idle
    /\ sw = Idle
    /\ tri = Idle

NextSolve == LUdecompEnter \/ LUdecompStep \/ AsolveForward \/ AsolveBack

SpecSolve == InitSolve /\ [][NextSolve]_vars

(* the factorizations and the triangular solvers together *)
SpecKernel == (InitLU \/ InitTri) /\ [][NextLU \/ NextTri]_vars

(* ------------------- properties of the factorization ------------------- *)
Square(M) == Rows(M) = Cols(M)
Started(v) == v.st \in {"running", "returned", "singular"}

(* determinant of an integer matrix by cofactor expansion along row 0 *)
Minor(M, c) ==
    [i \in Idx(Rows(M) - 1) |-> [j \in Idx(Rows(M) - 1) |->
        M[i + 1][IF j < c THEN j ELSE j + 1]]]

RECURSIVE Det(_), DetSum(_, _)
Det(M) == IF Rows(M) = 1 THEN M[0][0] ELSE DetSum(M, 0)
DetSum(M, c) ==
    IF c = Rows(M) THEN 0
    ELSE (IF c % 2 = 0 THEN 1 ELSE -1) * M[0][c] * Det(Minor(M, c)) + DetSum(M, c + 1)

Numerators(M) == [i \in Idx(Rows(M)) |-> [j \in Idx(Rows(M)) |-> M[i][j][1]]]

Singular(M) == Det(Numerators(M)) = 0

LowerTriangular(M) == \A i, j \in Idx(Rows(M)) : j > i => QIsZero(M[i][j])
UpperTriangular(M) == \A i, j \in Idx(Rows(M)) : j < i => QIsZero(M[i][j])
NonzeroDiagonal(M) == \A i \in Idx(Rows(M)) : ~QIsZero(M[i][i])
Permuted(M, Pv) == [i \in Idx(Rows(M)) |-> M[Pv[i]]]

(* the state PALUdecomp has just ended in; PALUdecompV2 is called next and *)
(* leaves the frame of PALUdecomp as it is                                 *)
JustEnded1 == v1.st \in Terminal /\ v2.st = "ready"

\* C1: whenever PALUdecomp returns (P, L, U), P.A = L.U entry by entry; the
\* same product is reproduced by PALUdecompV2 with the rows of A taken in
\* the order of its index list.
C1_PAeqLU ==
    /\ (JustEnded1 /\ v1.st = "returned") => mult(v1.P, A) = mult(v1.L, v1.U)
    /\ v2.st = "returned" => Permuted(A, v2.P) = mult(v2.L, v2.U)

C1_Witness ==
    /\ v1.st = "returned"
    /\ Rows(A) = 3
    /\ v1.P # Identity(3)
    /\ v1.P[0][0] = Q(0)
    /\ mult(v1.P, A) = mult(v1.L, v1.U)

SingularIff(v) ==
    v.st \in {"returned", "singular"} =>
        /\ (v.st = "singular") <=> Singular(A)
        /\ v.st = "singular" =>
              /\ \A i \in v.k .. (Rows(A) - 1) : QIsZero(v.B[i][v.k])
              /\ \A j \in 0 .. (v.k - 1) : ~QIsZero(v.U[j][j])

\* C4: for a square A the factorization ends with the singular-matrix error
\* exactly when A is singular; the error is raised at the first step k whose
\* column k of the working matrix is zero in rows k..n-1, every earlier
\* pivot being nonzero.
C4_SingularIff == (JustEnded1 => SingularIff(v1)) /\ SingularIff(v2)

C4_Witness ==
    /\ v1.st = "singular"
    /\ v2.st = "singular"
    /\ v1.k = 2
    /\ Singular(A)

C4_WitnessFirstStep ==
    /\ v1.st = "singular"
    /\ v1.k = 0
    /\ A = [i \in Idx(2) |-> [j \in Idx(2) |-> IF j = 1 THEN Q(1) ELSE Q(0)]]

ReturnedFactors(v) ==
    v.st = "returned" =>
        /\ LowerTriangular(v.L) /\ NonzeroDiagonal(v.L)
        /\ UpperTriangular(v.U) /\ NonzeroDiagonal(v.U)

\* C6 (as stated): a returned L is lower-triangular with nonzero diagonal, a
\* returned U is upper-triangular with nonzero diagonal, and no row swap
\* ever leaves a nonzero entry of the partially built L above the diagonal.
C6_TriangularFactors ==
    /\ ReturnedFactors(v1) /\ (Started(v1) => LowerTriangular(v1.L))
    /\ ReturnedFactors(v2) /\ (Started(v2) => LowerTriangular(v2.L))

\* the part of C6 about returned factors only
C6_ReturnedFactors == ReturnedFactors(v1) /\ ReturnedFactors(v2)

AsColumn(b) == [i \in DOMAIN b |-> [j \in Idx(1) |-> b[i]]]

\* C7: PALUdecomp and PALUdecompV2 end alike on the same A (same error, or
\* both return with the same L and U); the index list of V2 is a bijection
\* on 0..n-1 after every step; and the matrix P of V1 has a 1 in row i
\* exactly at column Pv[i], so (P.b)[i] = b[Pv[i]] for every b.
C7_Equivalent ==
    /\ Started(v2) => {v2.P[i] : i \in DOMAIN v2.P} = Idx(Rows(A))
    /\ (v1.st \in Terminal /\ v2.st \in Terminal) =>
          /\ v1.st = v2.st
          /\ v1.st = "returned" =>
                /\ v1.L = v2.L
                /\ v1.U = v2.U
                /\ \A i, j \in Idx(Rows(A)) :
                      v1.P[i][j] = (IF j = v2.P[i] THEN Q(1) ELSE Q(0))
                /\ \A b \in {[i \in Idx(Rows(A)) |-> Q(1)], [i \in Idx(Rows(A)) |-> Q(i + 2)]} :
                      mult(v1.P, AsColumn(b)) = AsColumn([i \in Idx(Rows(A)) |-> b[v2.P[i]]])

C7_Witness ==
    /\ v1.st = "returned"
    /\ v2.st = "returned"
    /\ Rows(A) = 3
    /\ v2.P = [i \in Idx(3) |-> (i + 1) % 3]
    /\ v1.L = v2.L

PivotAtOrBelow(v, w) ==
    (v.st = "running" /\ w # v) =>
        LET k == v.k
            p == w.maxk
        IN  /\ p >= k
            /\ \A i \in k .. (Rows(v.B) - 1) :
                  /\ ~QGt(QAbs(v.B[i][k]), QAbs(v.B[p][k]))
                  /\ i < p => QGt(QAbs(v.B[p][k]), QAbs(v.B[i][k]))

\* C10 (as stated): at every elimination step k the selected row p is at or
\* below the diagonal and holds the largest magnitude of column k among
\* rows k..n-1 of B, the lowest such row on a tie.
C10_PivotAtOrBelow == [][PivotAtOrBelow(v1, v1') /\ PivotAtOrBelow(v2, v2')]_vars

\* what holds of the selector: it returns the lowest row of largest magnitude
\* in the whole column, which is at or below the diagonal whenever some
\* entry of column k in rows k..n-1 is nonzero
PivotWholeColumn(v, w) ==
    (v.st = "running" /\ w # v) =>
        LET k == v.k
            p == w.maxk
        IN  /\ \A i \in Idx(Rows(v.B)) :
                  /\ ~QGt(QAbs(v.B[i][k]), QAbs(v.B[p][k]))
                  /\ i < p => QGt(QAbs(v.B[p][k]), QAbs(v.B[i][k]))
            /\ (\E i \in k .. (Rows(v.B) - 1) : ~QIsZero(v.B[i][k])) => p >= k
            /\ p < k => (p = 0 /\ w.st = "singular")

C10_Selector == [][PivotWholeColumn(v1, v1') /\ PivotWholeColumn(v2, v2')]_vars

(* --------------------- properties of the row swaps --------------------- *)
\* C8: for every matrix and valid pair (u, v), u = v included, swapRows and
\* swapRowsV2 yield the same rows: row u is the old row v, row v the old row
\* u, every other row is unchanged, u = v changes nothing; and swapRows
\* leaves its argument as it was.
C8_SwapsAgree ==
    sw.st = "done" =>
        /\ sw.R = sw.M2
        /\ sw.R[sw.u] = sw.M0[sw.v]
        /\ sw.R[sw.v] = sw.M0[sw.u]
        /\ \A i \in Idx(Rows(sw.M0)) : (i # sw.u /\ i # sw.v) => sw.R[i] = sw.M0[i]
        /\ sw.u = sw.v => sw.R = sw.M0
        /\ sw.M = sw.M0

C8_Witness ==
    /\ sw.st = "done"
    /\ Rows(sw.M0) = 3
    /\ sw.u = 2
    /\ sw.v = 0
    /\ sw.M0[0] # sw.M0[2]
    /\ sw.M2[0] = sw.M0[2]

(* ----------------- properties of the triangular solvers ---------------- *)
RECURSIVE SumRow(_, _, _, _, _)
SumRow(M, y, k, lo, hi) ==
    IF lo > hi THEN Q(0)
    ELSE QAdd(QMul(M[k][lo], y[lo]), SumRow(M, y, k, lo + 1, hi))

\* C3: Lsolve fills y in increasing k with
\* y[k] = (b[k] - sum_{j<k} L[k][j]*y[j]) / L[k][k], so that L.y = b for a
\* lower-triangular L; Usolve fills x in decreasing k with
\* x[k] = (y[k] - sum_{j>k} U[k][j]*x[j]) / U[k][k], so that U.x = y for an
\* upper-triangular U.
C3_Substitution ==
    LET n == Rows(tri.M)
        Lop == tri.op = "Lsolve"
        Filled(j) == IF Lop THEN j < tri.k ELSE j > tri.k
        Rest(j) == IF Lop THEN SumRow(tri.M, tri.y, j, 0, j - 1)
                          ELSE SumRow(tri.M, tri.y, j, j + 1, n - 1)
    IN  /\ tri.st \in {"running", "returned"} =>
              \A j \in Idx(n) :
                  IF Filled(j)
                  THEN tri.y[j] = QDiv(QSub(tri.b0[j], Rest(j)), tri.M[j][j])
                  ELSE tri.y[j] = tri.b0[j]
        /\ tri.st = "returned" =>
              /\ tri.ret = tri.y
              /\ (IF Lop THEN LowerTriangular(tri.M) ELSE UpperTriangular(tri.M))
                    => mult(tri.M, AsColumn(tri.ret)) = AsColumn(tri.b0)

C3_Witness ==
    /\ tri.st = "returned"
    /\ tri.op = "Lsolve"
    /\ Rows(tri.M) = 3
    /\ tri.M[2] = [j \in Idx(3) |-> Q(2)]
    /\ tri.ret[2] = <<-1, 2>>
    /\ mult(tri.M, AsColumn(tri.ret)) = AsColumn(tri.b0)

SizesOK == Rows(tri.M0) = Cols(tri.M0) /\ Cardinality(DOMAIN tri.b0) = Rows(tri.M0)

\* C5: both solvers end with the dimension error exactly when the matrix is
\* not square or the vector length differs from its dimension, whatever the
\* diagonal holds; with matching sizes they end with the singular-matrix
\* error exactly when some diagonal entry is zero; no vector is returned
\* with either error.
C5_SolverErrors ==
    /\ tri.st \in {"running", "returned", "singular"} => SizesOK
    /\ tri.st \in Terminal =>
          /\ (tri.st = "dimension") <=> ~SizesOK
          /\ (tri.st = "singular") <=>
                (SizesOK /\ \E i \in Idx(Rows(tri.M0)) : QIsZero(tri.M0[i][i]))
          /\ tri.st # "returned" => tri.ret = <<>>

C5_Witness ==
    /\ tri.st = "dimension"
    /\ tri.op = "Lsolve"
    /\ Rows(tri.M0) = 3
    /\ Cols(tri.M0) = 3
    /\ Cardinality(DOMAIN tri.b0) = 2
    /\ QIsZero(tri.M0[0][0])

C5_WitnessLastZero ==
    /\ tri.st = "singular"
    /\ tri.op = "Lsolve"
    /\ Rows(tri.M0) = 3
    /\ tri.k = 2
    /\ tri.ret = <<>>

C9_WitnessRaise ==
    /\ v2.st = "singular"
    /\ v2.k = 1
    /\ v2.maxk = 0
    /\ A = A0

C9_WitnessSolver ==
    /\ tri.st = "returned"
    /\ tri.ret # tri.b0
    /\ tri.b = tri.b0

(* ------------------------- properties of Asolve ------------------------ *)
\* C2 (as stated): for every square invertible A and every b of matching
\* length, Asolve does not fail and returns x with A.x = b.
C2_SolvesInvertible ==
    (sv.st \in Terminal /\ ~Singular(sv.A)) =>
        /\ sv.st = "returned"
        /\ mult(sv.A, AsColumn(sv.x)) = AsColumn(sv.b)

\* what Asolve does deliver: a returned x solves the system
C2_ReturnedSolves ==
    sv.st = "returned" => mult(sv.A, AsColumn(sv.x)) = AsColumn(sv.b)

====
